---- MODULE Spec2Model ----
(***************************************************************************)
(* A model of the command palette of svelte-hypercommands                  *)
(* (src/lib/palette/create.ts): the mode registry, the search pipeline,    *)
(* the selection cursor and the action-resolution state machine.           *)
(*                                                                         *)
(* Texts (search text, prefixes, item names, sort keys) are sequences of   *)
(* one-character strings, so that startsWith, slice, trim and toLowerCase  *)
(* are computed and not assumed.  An item is a record whose obj field is   *)
(* the identity of the JavaScript object: two items with the same id and   *)
(* different obj are two objects that carry the same id.                   *)
(***************************************************************************)
EXTENDS Integers, Sequences, FiniteSets, Bags, TLC

(***************************************************************************)
(* Bounds of the model.                                                    *)
(***************************************************************************)
MaxStale == 0          \* Searcher entries let to outlive their item, a Mode
MaxHistory == 2        \* longest history a Mode is let to grow to
MaxInFlight == 2       \* resolutions that may be pending at a time
MaxTimers == 2         \* timeouts of on_input that may be pending at a time

(***************************************************************************)
(* Texts.                                                                  *)
(***************************************************************************)
Alphabet == <<" ", ">", "a", "b", "e", "f", "h", "l", "o", "p", "t", "x">>

CharRank(c) == CHOOSE i \in 1..Len(Alphabet) : Alphabet[i] = c

LowerChar(c) == CASE c = "A" -> "a" [] c = "B" -> "b" [] OTHER -> c

\* String.prototype.toLowerCase
RECURSIVE toLowerCase(_)
toLowerCase(t) ==
    IF t = <<>> THEN <<>> ELSE <<LowerChar(Head(t))>> \o toLowerCase(Tail(t))

RECURSIVE trimStart(_)
trimStart(t) == IF t # <<>> /\ Head(t) = " " THEN trimStart(Tail(t)) ELSE t

RECURSIVE trimEnd(_)
trimEnd(t) ==
    IF t # <<>> /\ t[Len(t)] = " " THEN trimEnd(SubSeq(t, 1, Len(t) - 1)) ELSE t

\* String.prototype.trim
trim(t) == trimEnd(trimStart(t))

\* String.prototype.startsWith
startsWith(t, p) == Len(p) <= Len(t) /\ SubSeq(t, 1, Len(p)) = p

\* String.prototype.slice(n), 0 <= n
slice(t, n) == SubSeq(t, n + 1, Len(t))

\* a.localeCompare(b) < 0 on lowercased keys: dictionary order
RECURSIVE localeLess(_, _)
localeLess(a, b) ==
    IF b = <<>> THEN FALSE
    ELSE IF a = <<>> THEN TRUE
    ELSE IF Head(a) # Head(b) THEN CharRank(Head(a)) < CharRank(Head(b))
    ELSE localeLess(Tail(a), Tail(b))

(***************************************************************************)
(* Constants of the palette (constants.js, as used by create.ts).          *)
(***************************************************************************)
ACTIONABLE_CLOSE_ON ==
    {"ALWAYS", "NEVER", "ON_TRIGGER", "ON_CANCEL", "ON_SUCCESS", "ON_ERROR"}
PALETTE_CLOSE_ACTION == {"NO_ACTION", "RESET", "KEEP_CLOSE", "RESET_CLOSE"}
NO_RESULTS_MODE == {"ALL", "HISTORY", "NONE"}
SORT_MODE == {"SORTED", "REVERSED", "UNSORTED"}

(***************************************************************************)
(* The Modes, in registration order.                                       *)
(***************************************************************************)
ModeOrder == <<"default", "commands">>
ModeNames == {ModeOrder[i] : i \in 1..Len(ModeOrder)}

(***************************************************************************)
(* Items.                                                                  *)
(***************************************************************************)
Actionable(o, id, name, closeOn, shortcut) ==
    [obj |-> o, id |-> id, name |-> name, type |-> "ACTIONABLE",
     closeOn |-> closeOn, shortcut |-> shortcut]

NoItem == Actionable(0, "", <<>>, "NEVER", <<>>)
NoId == ""
Unset == <<"?">>

Beta == <<"B", "e", "t", "a">>
Alpha == <<"A", "l", "p", "h", "a">>
Alto == <<"A", "l", "t", "o">>

\* Items of the registry scenarios: a and a2 are two objects with the id "a".
ItemA == Actionable(1, "a", Beta, "ALWAYS", <<>>)
ItemB == Actionable(2, "b", Alpha, "ALWAYS", <<>>)
ItemA2 == Actionable(3, "a", Alpha, "ALWAYS", <<>>)
RegistryItems == {ItemA, ItemB, ItemA2}

\* Items of the resolution scenarios, one per closeOn policy under test.
ItemE == Actionable(4, "a", Beta, "ON_ERROR", <<>>)
ItemN == Actionable(5, "b", Alpha, "NEVER", <<"k">>)
ResolveItems == {ItemE, ItemN}

\* A third object with the id "b", bound to another key than ItemN.
ItemJ == Actionable(9, "b", Alto, "NEVER", <<"j">>)

\* Items of the selection scenarios: three ids, so that a step forward and a
\* step back differ.
ItemC == Actionable(6, "c", Alto, "ALWAYS", <<>>)
SelectItems == {ItemA, ItemB, ItemC}

\* A Navigable item: no shortcut, no onRequest.
Navigable(o, id, name, closeOn) ==
    [obj |-> o, id |-> id, name |-> name, type |-> "NAVIGABLE",
     closeOn |-> closeOn, shortcut |-> <<>>]

\* Items of the outcome scenarios: one Actionable per closeOn policy and
\* three Navigables, all under the id "a", so that the Mode holds one at a
\* time.
ItemOf(closeOn) ==
    CASE closeOn = "ALWAYS" -> Actionable(10, "a", Beta, closeOn, <<>>)
      [] closeOn = "NEVER" -> Actionable(11, "a", Beta, closeOn, <<>>)
      [] closeOn = "ON_TRIGGER" -> Actionable(12, "a", Beta, closeOn, <<>>)
      [] closeOn = "ON_CANCEL" -> Actionable(13, "a", Beta, closeOn, <<>>)
      [] closeOn = "ON_SUCCESS" -> Actionable(14, "a", Beta, closeOn, <<>>)
      [] closeOn = "ON_ERROR" -> Actionable(15, "a", Beta, closeOn, <<>>)
ItemV == Navigable(16, "a", Beta, "ON_SUCCESS")
ItemT == Navigable(17, "a", Beta, "ON_TRIGGER")
ItemW == Navigable(18, "a", Beta, "ALWAYS")
OutcomeItems == {ItemOf(c) : c \in ACTIONABLE_CLOSE_ON} \cup {ItemV, ItemT, ItemW}

\* A Searchable item: no closeOn, no shortcut.
Searchable(o, id, name) ==
    [obj |-> o, id |-> id, name |-> name, type |-> "SEARCHABLE",
     closeOn |-> "NEVER", shortcut |-> <<>>]

\* The Searchable of the submit scenarios.
ItemS == Searchable(8, "s", Alto)

\* Items of the sort scenarios: the names of a and p differ by a leading
\* space, which the keys of a sortBy list drop and mapToSearch keeps.
ItemP == Actionable(7, "p", <<" ">> \o Beta, "ALWAYS", <<>>)
SortItems == {ItemA, ItemB, ItemP}

Universe ==
    RegistryItems \cup ResolveItems \cup SelectItems \cup OutcomeItems \cup SortItems
        \cup {ItemS, ItemJ}
Objs == {it.obj : it \in Universe}

\* The batches of candidates drawn from a set of items: every single item
\* and every pair, pairs that repeat an item or an id included.
Batches(S) == {<<x>> : x \in S} \cup {<<x, y>> : x \in S, y \in S}

(***************************************************************************)
(* State.                                                                  *)
(***************************************************************************)
VARIABLES
    config,            \* the options the palette was created with
    rawAll,            \* per Mode: rawItems, in insertion order
    rawAllSorted,      \* per Mode: rawItemsSorted
    items,             \* per Mode: the exposed items view
    searcher,          \* per Mode: what the Searcher indexes
    results,           \* per Mode: the results shown
    history,           \* per Mode: ids, most recent first
    current,           \* per Mode: the item in resolution, or NoItem
    lastInput,         \* per Mode: search text at the last close
    hcache,            \* per item object: hcache.sort
    mode_state,        \* _mode_state: the active Mode
    paletteMode,       \* the exposed mode name
    open,              \* _open
    searchText,        \* searchText
    selected,          \* selected: [idx, id]
    error,             \* the error slot
    keyBindings,       \* handlers bound in the key-binding service (a bag)
    shortcuts_cleanup, \* _shorcuts_cleanup: item id -> handlers to unbind
    debounce_id,       \* on_input's handle of the timeout it set last
    timers,            \* the timeouts of on_input that are pending: [id, query],
                       \* each with the Mode that was active when it was set
    cleanups,          \* reversal callbacks held by the caller
    inflight,          \* resolutions suspended at an await
    last               \* the last call or event that changed the state

vars == <<config, rawAll, rawAllSorted, items, searcher, results, history,
          current, lastInput, hcache, mode_state, paletteMode, open,
          searchText, selected, error, keyBindings, shortcuts_cleanup,
          debounce_id, timers, cleanups, inflight, last>>

\* The program state as one record, so that the functions of create.ts can
\* be composed as they are called.
St ==
    [rawAll |-> rawAll, rawAllSorted |-> rawAllSorted, items |-> items,
     searcher |-> searcher, results |-> results, history |-> history,
     current |-> current, lastInput |-> lastInput, hcache |-> hcache,
     mode_state |-> mode_state, paletteMode |-> paletteMode, open |-> open,
     searchText |-> searchText, selected |-> selected, error |-> error,
     keyBindings |-> keyBindings, shortcuts_cleanup |-> shortcuts_cleanup,
     debounce_id |-> debounce_id, timers |-> timers, refreshed |-> FALSE]

\* The prefix a Mode was configured with.
Prefix(m) == config.prefix[m]

Commit(s) ==
    /\ rawAll' = s.rawAll
    /\ rawAllSorted' = s.rawAllSorted
    /\ items' = s.items
    /\ searcher' = s.searcher
    /\ results' = s.results
    /\ history' = s.history
    /\ current' = s.current
    /\ lastInput' = s.lastInput
    /\ hcache' = s.hcache
    /\ mode_state' = s.mode_state
    /\ paletteMode' = s.paletteMode
    /\ open' = s.open
    /\ searchText' = s.searchText
    /\ selected' = s.selected
    /\ error' = s.error
    /\ keyBindings' = s.keyBindings
    /\ shortcuts_cleanup' = s.shortcuts_cleanup
    /\ debounce_id' = s.debounce_id
    /\ timers' = s.timers
    /\ config' = config

(***************************************************************************)
(* Array helpers.                                                          *)
(***************************************************************************)
\* The first index whose item has the id, 0 when there is none (the code's -1).
IndexOfId(seq, id) ==
    IF \E i \in 1..Len(seq) : seq[i].id = id
    THEN CHOOSE i \in 1..Len(seq) :
            /\ seq[i].id = id
            /\ \A j \in 1..(i - 1) : seq[j].id # id
    ELSE 0

\* The first index that holds this very object, 0 when there is none.
IndexOfObj(seq, item) ==
    IF \E i \in 1..Len(seq) : seq[i] = item
    THEN CHOOSE i \in 1..Len(seq) :
            /\ seq[i] = item
            /\ \A j \in 1..(i - 1) : seq[j] # item
    ELSE 0

\* Array.prototype.splice(idx, 1), idx >= 1
RemoveAt(seq, idx) == SubSeq(seq, 1, idx - 1) \o SubSeq(seq, idx + 1, Len(seq))

\* Array.prototype.reverse
RECURSIVE Reverse(_)
Reverse(seq) == IF seq = <<>> THEN <<>> ELSE Append(Reverse(Tail(seq)), Head(seq))

\* Array.prototype.unshift
Unshift(seq, x) == <<x>> \o seq

RECURSIVE Ids(_)
Ids(seq) == IF seq = <<>> THEN <<>> ELSE <<Head(seq).id>> \o Ids(Tail(seq))
Range(seq) == {seq[i] : i \in 1..Len(seq)}

(***************************************************************************)
(* Sort strategies (getModes) and defaultItemSorter.                       *)
(***************************************************************************)
NoSortBy == <<>>

\* mapToSearch of the Modes: the item's name.
mapToSearch(item) == item.name

FieldString(item, key) == IF key = "name" THEN item.name ELSE <<>>

\* The mapper of the "keys" strategy: the trimmed values, concatenated.
RECURSIVE keysMapper(_, _)
keysMapper(keys, item) ==
    IF keys = <<>> THEN <<>>
    ELSE trim(FieldString(item, Head(keys))) \o keysMapper(Tail(keys), item)

sortType(m) == IF config.sortBy[m] = NoSortBy THEN "search" ELSE "keys"

sortMapper(m, item) ==
    IF sortType(m) = "search" THEN mapToSearch(item)
    ELSE keysMapper(config.sortBy[m], item)

\* Insert x behind every element whose key is not greater (Array.sort is stable).
RECURSIVE InsertSorted(_, _, _)
InsertSorted(sorted, x, hc) ==
    IF sorted = <<>> THEN <<x>>
    ELSE IF localeLess(hc[x.obj], hc[Head(sorted).obj])
         THEN <<x>> \o sorted
         ELSE <<Head(sorted)>> \o InsertSorted(Tail(sorted), x, hc)

RECURSIVE SortFrom(_, _, _)
SortFrom(sorted, rest, hc) ==
    IF rest = <<>> THEN sorted
    ELSE SortFrom(InsertSorted(sorted, Head(rest), hc), Tail(rest), hc)

defaultItemSorter(seq, hc) == SortFrom(<<>>, seq, hc)

(***************************************************************************)
(* The Searcher of a Mode: add, remove, search.                            *)
(***************************************************************************)
Searcher_add(idx, item) == Append(idx, item)

Searcher_remove(idx, item) ==
    IF IndexOfObj(idx, item) = 0 THEN idx ELSE RemoveAt(idx, IndexOfObj(idx, item))

\* pattern occurs in text, letter case ignored
Matches(text, pattern) ==
    \E i \in 0..(Len(text) - Len(pattern)) :
        SubSeq(toLowerCase(text), i + 1, i + Len(pattern)) = toLowerCase(pattern)

Searcher_search(idx, pattern) ==
    SelectSeq(idx, LAMBDA item : Matches(mapToSearch(item), pattern))

(***************************************************************************)
(* The search pipeline.                                                    *)
(***************************************************************************)
NoSelection == [idx |-> -1, id |-> NoId]

_set_empty_results(s) ==
    [s EXCEPT !.results[s.mode_state] = <<>>, !.selected = NoSelection]

\* emptyMode = HISTORY: each history id looked up in rawAll, absent ids skipped
RECURSIVE HistoryResults(_, _)
HistoryResults(hist, raw) ==
    IF hist = <<>> THEN <<>>
    ELSE IF IndexOfId(raw, Head(hist)) = 0 THEN HistoryResults(Tail(hist), raw)
    ELSE <<raw[IndexOfId(raw, Head(hist))]>> \o HistoryResults(Tail(hist), raw)

EmptyResults(s) ==
    LET m == s.mode_state
    IN  CASE config.emptyMode[m] = "ALL" -> s.rawAllSorted[m]
          [] config.emptyMode[m] = "HISTORY" -> HistoryResults(s.history[m], s.rawAll[m])
          [] config.emptyMode[m] = "NONE" -> <<>>

_search_and_update(s, pattern) ==
    LET m == s.mode_state
        found == IF pattern = <<>> THEN EmptyResults(s)
                 ELSE defaultItemSorter(Searcher_search(s.searcher[m], pattern), s.hcache)
    IN  [s EXCEPT !.results[m] = found,
                  !.selected = IF found = <<>> THEN NoSelection
                               ELSE [idx |-> 0, id |-> found[1].id],
                  !.refreshed = TRUE]

_update_results(s) ==
    _search_and_update(s, slice(s.searchText, Len(Prefix(s.mode_state))))

(***************************************************************************)
(* Item shortcuts.                                                         *)
(***************************************************************************)
\* The handlers _register_shortcut binds for an item, one per shortcut.
Handlers(item) ==
    SetToBag({[item |-> item.obj, shortcut |-> item.shortcut[i]] :
                 i \in 1..Len(item.shortcut)})

_register_shortcut(s, item) ==
    IF Len(item.shortcut) = 0 THEN s
    ELSE [s EXCEPT !.keyBindings = @ (+) Handlers(item),
                   !.shortcuts_cleanup[item.id] = Handlers(item)]

_unregister_shortcut(s, item) ==
    [s EXCEPT !.keyBindings = @ (-) s.shortcuts_cleanup[item.id],
              !.shortcuts_cleanup[item.id] = EmptyBag]

(***************************************************************************)
(* Registration.                                                           *)
(***************************************************************************)
\* rawAllSorted as _register_item recomputes it from rawAll
SortedCopy(m, raw, hc) ==
    CASE config.sortMode[m] = "UNSORTED" -> raw
      [] config.sortMode[m] = "SORTED" -> defaultItemSorter(raw, hc)
      [] config.sortMode[m] = "REVERSED" -> Reverse(defaultItemSorter(raw, hc))

\* The lookup, were it to compare the objects and not their ids.
FoundIdx_byReference(raw, new_item) == IndexOfObj(raw, new_item)

\* The lookup of a candidate's id in rawAll (the code's found_idx, 0 for -1).
FoundIdx(raw, new_item) == IndexOfId(raw, new_item.id)

\* One round of the loop over the candidates.  acc is the state, the items
\* added so far and whether the duplicate-id error was thrown.
_register_candidate(acc, mode, new_item, override, silent) ==
    LET found_idx == FoundIdx(acc.s.rawAll[mode], new_item)
        s == [acc.s EXCEPT !.hcache[new_item.obj] =
                               toLowerCase(sortMapper(mode, new_item))]
    IN  IF found_idx = 0
        THEN LET s1 == [s EXCEPT !.rawAll[mode] = Append(@, new_item),
                                 !.items[mode] = Append(@, new_item),
                                 !.searcher[mode] = Searcher_add(@, new_item)]
             IN  [acc EXCEPT !.s = _register_shortcut(s1, new_item),
                             !.new_items = Append(@, new_item)]
        ELSE IF override
        THEN LET removed == s.rawAll[mode][found_idx]
                 s1 == _unregister_shortcut(s, removed)
                 s2 == [s1 EXCEPT !.searcher[mode] = Searcher_remove(@, removed),
                                  !.rawAll[mode][found_idx] = new_item]
                 s3 == _register_shortcut(s2, new_item)
             IN  [acc EXCEPT !.s = [s3 EXCEPT
                                       !.items[mode][found_idx] = new_item,
                                       !.searcher[mode] = Searcher_add(@, new_item)]]
        ELSE IF silent THEN [acc EXCEPT !.s = s]
        ELSE [acc EXCEPT !.s = s, !.threw = TRUE]

RECURSIVE _register_loop(_, _, _, _, _)
_register_loop(acc, mode, unsafe_items, override, silent) ==
    IF unsafe_items = <<>> \/ acc.threw THEN acc
    ELSE _register_loop(
             _register_candidate(acc, mode, Head(unsafe_items), override, silent),
             mode, Tail(unsafe_items), override, silent)

\* _register_item: [s, new_items, threw].  When the error is thrown the
\* function is left at the throw: nothing after the loop runs and no
\* reversal callback is returned.
_register_item(s, mode, item, override, silent) ==
    LET r == _register_loop([s |-> s, new_items |-> <<>>, threw |-> FALSE],
                            mode, item, override, silent)
        s1 == [r.s EXCEPT !.rawAllSorted[mode] =
                              SortedCopy(mode, r.s.rawAll[mode], r.s.hcache)]
    IN  IF r.threw THEN r
        ELSE [r EXCEPT !.s = IF s1.open /\ s1.mode_state = mode
                             THEN _update_results(s1) ELSE s1]

\* One round of the reversal callback's loop over new_items.
_cleanup_item(s, mode, new_item) ==
    LET idx == IndexOfId(s.rawAll[mode], new_item.id)
        s1 == [s EXCEPT !.rawAll[mode] = RemoveAt(@, idx),
                        !.items[mode] = RemoveAt(@, idx),
                        !.searcher[mode] = Searcher_remove(@, new_item)]
        s2 == _unregister_shortcut(s1, new_item)
        i == IndexOfId(s2.rawAllSorted[mode], new_item.id)
    IN  IF idx = 0 THEN s
        ELSE IF i = 0 THEN s2
        ELSE [s2 EXCEPT !.rawAllSorted[mode] = RemoveAt(@, i)]

RECURSIVE _cleanup_loop(_, _, _)
_cleanup_loop(s, mode, new_items) ==
    IF new_items = <<>> THEN s
    ELSE _cleanup_loop(_cleanup_item(s, mode, Head(new_items)), mode, Tail(new_items))

\* The reversal callback returned by _register_item.
_register_item_cleanup(s, mode, new_items) ==
    LET s1 == _cleanup_loop(s, mode, new_items)
    IN  IF s1.open /\ s1.mode_state = mode THEN _update_results(s1) ELSE s1

(***************************************************************************)
(* Unregistration.                                                         *)
(***************************************************************************)
\* Matchers: an id, an item reference, or a predicate on items.
IdMatcher(id) == [kind |-> "string", id |-> id, item |-> NoItem, fn |-> ""]
ItemMatcher(item) == [kind |-> "object", id |-> NoId, item |-> item, fn |-> ""]
FnMatcher(fn) == [kind |-> "function", id |-> NoId, item |-> NoItem, fn |-> fn]

\* The predicates the callers of the model pass.
Predicate(fn, item) ==
    CASE fn = "isAlpha" -> item.name = Alpha
      [] fn = "any" -> TRUE
      [] OTHER -> FALSE

\* The indices a matcher selects in rawAll, ascending (the code's to_remove).
to_remove(raw, selector) ==
    CASE selector.kind = "string" ->
            IF IndexOfId(raw, selector.id) = 0 THEN {}
            ELSE {IndexOfId(raw, selector.id)}
      [] selector.kind = "function" ->
            {i \in 1..Len(raw) : Predicate(selector.fn, raw[i])}
      [] selector.kind = "object" ->
            IF IndexOfObj(raw, selector.item) = 0 THEN {}
            ELSE {IndexOfObj(raw, selector.item)}

_unregister_at(s, mode, idx) ==
    LET removed == s.rawAll[mode][idx]
        s1 == [s EXCEPT !.rawAll[mode] = RemoveAt(@, idx),
                        !.items[mode] = RemoveAt(@, idx),
                        !.searcher[mode] = Searcher_remove(@, removed)]
        s2 == _unregister_shortcut(s1, removed)
        i == IndexOfId(s2.rawAllSorted[mode], removed.id)
    IN  IF i = 0 THEN s2 ELSE [s2 EXCEPT !.rawAllSorted[mode] = RemoveAt(@, i)]

\* The selected indices are removed from the last to the first.
RECURSIVE _unregister_indices(_, _, _)
_unregister_indices(s, mode, idxs) ==
    IF idxs = {} THEN s
    ELSE LET idx == CHOOSE i \in idxs : \A j \in idxs : j <= i
         IN  _unregister_indices(_unregister_at(s, mode, idx), mode, idxs \ {idx})

RECURSIVE _unregister_loop(_, _, _)
_unregister_loop(acc, mode, selectors) ==
    IF selectors = <<>> THEN acc
    ELSE LET idxs == to_remove(acc.s.rawAll[mode], Head(selectors))
         IN  _unregister_loop(
                 [s |-> _unregister_indices(acc.s, mode, idxs),
                  removed_count |-> acc.removed_count + Cardinality(idxs)],
                 mode, Tail(selectors))

\* _unregister_item, were it to refresh without looking at removed_count.
_unregister_item_refreshing(s, mode, selector) ==
    LET r == _unregister_loop([s |-> s, removed_count |-> 0], mode, selector)
    IN  [r EXCEPT !.s = IF r.s.open /\ r.s.mode_state = mode
                        THEN _update_results(r.s) ELSE r.s]

\* _unregister_item: [s, removed_count]
_unregister_item(s, mode, selector) ==
    LET r == _unregister_loop([s |-> s, removed_count |-> 0], mode, selector)
    IN  IF r.removed_count = 0 THEN r
        ELSE [r EXCEPT !.s = IF r.s.open /\ r.s.mode_state = mode
                             THEN _update_results(r.s) ELSE r.s]

(***************************************************************************)
(* Opening and closing.                                                    *)
(***************************************************************************)
\* _open_palette, were it to reset whatever resetOnOpen says
_open_palette_resetting(s, mode) ==
    _update_results([s EXCEPT !.mode_state = mode, !.paletteMode = mode,
                              !.open = TRUE, !.current[mode] = NoItem,
                              !.searchText = Prefix(mode)])

\* _modes.get(mode) of a name that is not a Mode: undefined
NoMode == "undefined"

\* With a name that is not a Mode the active Mode is undefined, the name is
\* exposed and the palette open; under resetOnOpen the call then fails on
\* the current item of the undefined Mode.
_open_palette(s, mode) ==
    LET s1 == [s EXCEPT !.mode_state = IF mode \in ModeNames THEN mode ELSE NoMode,
                        !.paletteMode = mode, !.open = TRUE]
    IN  IF ~config.resetOnOpen \/ mode \notin ModeNames THEN s1
        ELSE _update_results([s1 EXCEPT !.current[mode] = NoItem,
                                        !.searchText = Prefix(mode)])

should_reset == config.closeAction \in {"RESET", "RESET_CLOSE"}
should_close == config.closeAction \in {"KEEP_CLOSE", "RESET_CLOSE"}

\* a close action that reads the search text for lastInput after the reset
_resolve_close_action_late(s) ==
    LET m == s.mode_state
        s1 == IF should_reset
              THEN _search_and_update([s EXCEPT !.searchText = Prefix(m)], <<>>)
              ELSE s
        s2 == [s1 EXCEPT !.lastInput[m] = s1.searchText]
    IN  IF should_close /\ ~s2.open THEN [s2 EXCEPT !.open = TRUE] ELSE s2

_resolve_close_action(s) ==
    LET m == s.mode_state
        s1 == [s EXCEPT !.lastInput[m] = s.searchText]
        s2 == IF should_reset
              THEN _search_and_update([s1 EXCEPT !.searchText = Prefix(m)], <<>>)
              ELSE s1
    IN  IF should_close /\ ~s2.open THEN [s2 EXCEPT !.open = TRUE] ELSE s2

\* a closePalette that also empties the history of the active Mode
_close_palette_forgetting(s) ==
    IF ~s.open THEN s
    ELSE _resolve_close_action([s EXCEPT !.open = FALSE,
                                         !.history[s.mode_state] = <<>>])

_close_palette(s) ==
    IF ~s.open THEN s ELSE _resolve_close_action([s EXCEPT !.open = FALSE])

(***************************************************************************)
(* Input.                                                                  *)
(***************************************************************************)
NoTimer == 0

\* clearTimeout(id): a pending timeout with that id is dropped
clearTimeout(pending, id) == SelectSeq(pending, LAMBDA t : t.id # id)

\* The id setTimeout returns: one no pending timeout has.
NextTimerId(pending) ==
    CHOOSE id \in 1..(Len(pending) + 1) :
        \A k \in 1..Len(pending) : pending[k].id # id

\* The first Mode, in registration order, whose prefix starts the text;
\* otherwise the mode name on_input began with.
RECURSIVE ScanModes(_, _, _)
ScanModes(order, query, otherwise) ==
    IF order = <<>> THEN otherwise
    ELSE IF startsWith(query, Prefix(Head(order))) THEN Head(order)
    ELSE ScanModes(Tail(order), query, otherwise)

\* an on_input that sets its timeout without clearing the one it set before
on_input_stacking(s, raw_value) ==
    LET s1 == [s EXCEPT !.searchText = raw_value]
        newInputMode ==
            IF ~startsWith(raw_value, Prefix(s.mode_state))
                  \/ Prefix(s.mode_state) = <<>>
            THEN ScanModes(ModeOrder, raw_value, s.paletteMode)
            ELSE s.paletteMode
        s2 == [s1 EXCEPT !.mode_state = newInputMode, !.paletteMode = newInputMode]
        query == slice(raw_value, Len(Prefix(newInputMode)))
        id == NextTimerId(s.timers)
    IN  IF config.debounce <= 0 \/ newInputMode # s.paletteMode
        THEN _search_and_update(s2, query)
        ELSE [s2 EXCEPT !.debounce_id = id,
                        !.timers = Append(@, [id |-> id, query |-> query,
                                              mode |-> newInputMode])]

on_input(s, raw_value) ==
    LET s1 == [s EXCEPT !.searchText = raw_value]
        prefix == Prefix(s.mode_state)
        newInputMode ==
            IF ~startsWith(raw_value, prefix) \/ prefix = <<>>
            THEN ScanModes(ModeOrder, raw_value, s.paletteMode)
            ELSE s.paletteMode
        switched == newInputMode # s.paletteMode
        force_search == config.debounce <= 0 \/ switched
        s2 == IF switched
              THEN [s1 EXCEPT !.mode_state = newInputMode,
                              !.paletteMode = newInputMode]
              ELSE s1
        s3 == [s2 EXCEPT !.timers = clearTimeout(@, s.debounce_id)]
        query == slice(raw_value, Len(Prefix(s3.mode_state)))
        id == NextTimerId(s3.timers)
    IN  IF force_search THEN _search_and_update(s3, query)
        ELSE [s3 EXCEPT !.debounce_id = id,
                        !.timers = Append(@, [id |-> id, query |-> query,
                                              mode |-> newInputMode])]

\* The deferred _search_and_update(query) of on_input, when the k-th pending
\* timeout fires.
debounce_fire(s, k) ==
    _search_and_update([s EXCEPT !.timers = RemoveAt(@, k)], s.timers[k].query)

(***************************************************************************)
(* The selection cursor.                                                   *)
(***************************************************************************)
\* a cursor that stops at the last result
_select_next_result_stopping(s) ==
    LET res == s.results[s.mode_state]
        newIdx == IF s.selected.idx + 1 < Len(res) THEN s.selected.idx + 1
                  ELSE Len(res) - 1
    IN  IF Len(res) = 0 THEN s
        ELSE [s EXCEPT !.selected = [idx |-> newIdx, id |-> res[newIdx + 1].id]]

_select_next_result(s) ==
    LET res == s.results[s.mode_state]
        selectedIdx == s.selected.idx
        newIdx == IF selectedIdx = -1 THEN 0 ELSE (selectedIdx + 1) % Len(res)
    IN  IF Len(res) = 0 THEN s
        ELSE [s EXCEPT !.selected = [idx |-> newIdx, id |-> res[newIdx + 1].id]]

_select_previous_result(s) ==
    LET res == s.results[s.mode_state]
        selectedIdx == s.selected.idx
        newIdx == IF selectedIdx = -1 THEN Len(res) - 1
                  ELSE (selectedIdx - 1 + Len(res)) % Len(res)
    IN  IF Len(res) = 0 THEN s
        ELSE [s EXCEPT !.selected = [idx |-> newIdx, id |-> res[newIdx + 1].id]]

(***************************************************************************)
(* Action resolution.  A resolution is suspended at each await: after the  *)
(* call of onRequest and after the call of onAction.                       *)
(***************************************************************************)
NoError == [error |-> "", item |-> NoItem, source |-> "", mode |-> ""]

\* a resolution that reaches onRequest without resolving the close action
_resolve_actionable_late(s, item) == [s EXCEPT !.current[s.mode_state] = item]

\* _resolve_actionable up to the await of onRequest
_resolve_actionable(s, item) ==
    LET s1 == [s EXCEPT !.current[s.mode_state] = item]
    IN  IF item.closeOn = "ON_TRIGGER" THEN _resolve_close_action(s1) ELSE s1

\* a cancellation that clears the current item whatever closeOn says
_after_onRequest_clearing(s, item, preAction) ==
    IF preAction THEN s
    ELSE LET s1 == IF item.closeOn \in {"ON_CANCEL", "ALWAYS"}
                   THEN _resolve_close_action(s) ELSE s
         IN  [s1 EXCEPT !.current[s1.mode_state] = NoItem]

\* ... from onRequest's answer to the await of onAction (or the return)
_after_onRequest(s, item, preAction) ==
    IF preAction = FALSE /\ item.closeOn \in {"ON_CANCEL", "ALWAYS"}
    THEN LET s1 == _resolve_close_action(s)
         IN  [s1 EXCEPT !.current[s1.mode_state] = NoItem]
    ELSE s

\* a history that grows at its end
_push_history_last(s, item) ==
    [s EXCEPT !.history[s.mode_state] = Append(@, item.id)]

\* the finally block
_push_history(s, item) ==
    [s EXCEPT !.history[s.mode_state] = Unshift(@, item.id)]

\* a resolution whose success leaves the error slot as it finds it
_after_onAction_stale(s, item, source, threw) ==
    LET s1 == IF ~threw THEN s
              ELSE [s EXCEPT !.error = [error |-> "thrown", item |-> item,
                                        source |-> source, mode |-> s.mode_state]]
        s2 == _push_history(s1, item)
        s3 == IF item.closeOn \in {"ON_SUCCESS", "ALWAYS"}
                 \/ (threw /\ item.closeOn = "ON_ERROR")
              THEN _resolve_close_action(s2) ELSE s2
    IN  [s3 EXCEPT !.current[s3.mode_state] = NoItem]

\* a resolution that resolves the close action after every onAction
_after_onAction_closing(s, item, source, threw) ==
    LET s1 == [s EXCEPT !.error =
                   IF threw THEN [error |-> "thrown", item |-> item,
                                  source |-> source, mode |-> s.mode_state]
                   ELSE NoError]
        s2 == _resolve_close_action(_push_history(s1, item))
    IN  [s2 EXCEPT !.current[s2.mode_state] = NoItem]

\* ... from the outcome of onAction to the end
_after_onAction(s, item, source, threw) ==
    IF ~threw
    THEN LET s1 == _push_history([s EXCEPT !.error = NoError], item)
             s2 == IF item.closeOn \in {"ON_SUCCESS", "ALWAYS"}
                   THEN _resolve_close_action(s1) ELSE s1
         IN  [s2 EXCEPT !.current[s2.mode_state] = NoItem]
    ELSE LET s1 == [s EXCEPT !.error = [error |-> "thrown", item |-> item,
                                        source |-> source, mode |-> s.mode_state]]
         IN  IF item.closeOn \in {"ON_ERROR", "ALWAYS"}
             THEN LET s2 == _resolve_close_action(s1)
                  IN  _push_history([s2 EXCEPT !.current[s2.mode_state] = NoItem], item)
             ELSE LET s2 == _push_history(s1, item)
                      s3 == IF item.closeOn \in {"ON_SUCCESS", "ALWAYS"}
                            THEN _resolve_close_action(s2) ELSE s2
                  IN  [s3 EXCEPT !.current[s3.mode_state] = NoItem]

\* _resolve_navigable up to the await of the navigation hook
_resolve_navigable(s, item) ==
    LET s1 == [s EXCEPT !.current[s.mode_state] = item]
    IN  IF item.closeOn = "ON_TRIGGER" THEN _resolve_close_action(s1) ELSE s1

\* a navigation whose closing error path returns before the history is pushed
_after_navigation_skipping(s, item, source, threw) ==
    LET closing(x) == LET x1 == _resolve_close_action(x)
                      IN  [x1 EXCEPT !.current[x1.mode_state] = NoItem]
        s1 == IF ~threw THEN [s EXCEPT !.error = NoError]
              ELSE [s EXCEPT !.error = [error |-> "thrown", item |-> item,
                                        source |-> source, mode |-> s.mode_state]]
    IN  IF threw /\ item.closeOn \in {"ON_ERROR", "ALWAYS"} THEN closing(s1)
        ELSE IF item.closeOn \in {"ON_SUCCESS", "ALWAYS"}
        THEN closing(_push_history(s1, item))
        ELSE _push_history(s1, item)

\* ... from the outcome of the navigation hook (onNavigation, onExternal or
\* onLocal) to the end
_after_navigation(s, item, source, threw) ==
    LET closing(x) == LET x1 == _resolve_close_action(x)
                      IN  [x1 EXCEPT !.current[x1.mode_state] = NoItem]
    IN  IF ~threw
        THEN LET s1 == _push_history([s EXCEPT !.error = NoError], item)
             IN  IF item.closeOn \in {"ON_SUCCESS", "ALWAYS"} THEN closing(s1) ELSE s1
        ELSE LET s1 == [s EXCEPT !.error = [error |-> "thrown", item |-> item,
                                            source |-> source, mode |-> s.mode_state]]
             IN  IF item.closeOn \in {"ON_ERROR", "ALWAYS"}
                 THEN _push_history(closing(s1), item)
                 ELSE LET s2 == _push_history(s1, item)
                      IN  IF item.closeOn \in {"ON_SUCCESS", "ALWAYS"}
                          THEN closing(s2) ELSE s2

\* _resolve_searchable: the call fails, nothing is written
_resolve_searchable(s, item) == [s |-> s, threw |-> TRUE]

\* on_submit up to the call of the resolver: the item submitted and the
\* selection it leaves.  Only called with results.
SubmitIdx(s) == IF s.selected.idx < 0 THEN 0 ELSE s.selected.idx

on_submit_select(s) ==
    IF s.selected.idx < 0
    THEN [s EXCEPT !.selected =
             [idx |-> 0, id |-> s.results[s.mode_state][1].id]]
    ELSE s

(***************************************************************************)
(* Initial state: the palette as createPalette returns it.                 *)
(***************************************************************************)
Configs(closeActions, resets, debounces, emptyModes, sortModes, sortBys) ==
    [closeAction : closeActions, resetOnOpen : resets, debounce : debounces,
     emptyMode : [ModeNames -> emptyModes], sortMode : [ModeNames -> sortModes],
     sortBy : [ModeNames -> sortBys],
     prefix : {[default |-> <<>>, commands |-> <<">">>]}]

Observed(op, threw, n) == [op |-> op, threw |-> threw, n |-> n]

InitWith(configs) ==
    /\ config \in configs
    /\ rawAll = [m \in ModeNames |-> <<>>]
    /\ rawAllSorted = [m \in ModeNames |-> <<>>]
    /\ items = [m \in ModeNames |-> <<>>]
    /\ searcher = [m \in ModeNames |-> <<>>]
    /\ results = [m \in ModeNames |-> <<>>]
    /\ history = [m \in ModeNames |-> <<>>]
    /\ current = [m \in ModeNames |-> NoItem]
    /\ lastInput = [m \in ModeNames |-> <<>>]
    /\ hcache = [o \in Objs |-> Unset]
    /\ mode_state = ModeOrder[1]
    /\ paletteMode = ModeOrder[1]
    /\ open = FALSE
    /\ searchText = <<>>
    /\ selected = NoSelection
    /\ error = NoError
    /\ keyBindings = EmptyBag
    /\ shortcuts_cleanup = [id \in {it.id : it \in Universe} |-> EmptyBag]
    /\ debounce_id = NoTimer
    /\ timers = <<>>
    /\ cleanups = <<>>
    /\ inflight = <<>>
    /\ last = Observed("createPalette", FALSE, 0)

(***************************************************************************)
(* Actions: the public helpers, the event handlers and the settling of the *)
(* hooks.                                                                  *)
(***************************************************************************)
\* A call that changes nothing leaves no trace in last.
Done(s, op, threw, n) ==
    /\ Commit(s)
    /\ last' = IF [s EXCEPT !.refreshed = FALSE] = St THEN last
               ELSE Observed(op, threw, n)

\* helpers.registerItem(mode, item, override, silent).  The caller holds
\* one reversal callback at a time: a caller that keeps them keeps the one
\* returned when it holds none and the call added something.
RegisterItem(mode, item, override, silent, keep) ==
    LET r == _register_item(St, mode, item, override, silent)
    IN  /\ Len(r.s.searcher[mode]) <= Len(r.s.rawAll[mode]) + MaxStale
        /\ Done(r.s, "registerItem", r.threw, 0)
        /\ cleanups' = IF keep /\ cleanups = <<>> /\ ~r.threw /\ r.new_items # <<>>
                       THEN <<[mode |-> mode, new_items |-> r.new_items]>>
                       ELSE cleanups
        /\ UNCHANGED inflight

\* The caller drops the reversal callback it holds.
DropCleanup ==
    /\ cleanups # <<>>
    /\ cleanups' = <<>>
    /\ last' = Observed("drop", FALSE, 0)
    /\ UNCHANGED <<config, rawAll, rawAllSorted, items, searcher, results,
                   history, current, lastInput, hcache, mode_state, paletteMode,
                   open, searchText, selected, error, keyBindings,
                   shortcuts_cleanup, debounce_id, timers, inflight>>

\* The caller invokes a reversal callback it holds, and then drops it.
InvokeCleanup(i) ==
    /\ i \in 1..Len(cleanups)
    /\ Done(_register_item_cleanup(St, cleanups[i].mode, cleanups[i].new_items),
            "cleanup", FALSE, 0)
    /\ cleanups' = RemoveAt(cleanups, i)
    /\ UNCHANGED inflight

\* helpers.unregisterItem(mode, selector)
UnregisterItem(mode, selector) ==
    LET r == _unregister_item(St, mode, selector)
    IN  /\ Done(r.s, "unregisterItem", FALSE, r.removed_count)
        /\ UNCHANGED <<cleanups, inflight>>

\* helpers.openPalette(mode)
OpenPalette(mode) ==
    /\ Done(_open_palette(St, mode), "openPalette",
            config.resetOnOpen /\ mode \notin ModeNames, 0)
    /\ UNCHANGED <<cleanups, inflight>>

\* helpers.closePalette()
ClosePalette ==
    /\ Done(_close_palette(St), "closePalette", FALSE, 0)
    /\ UNCHANGED <<cleanups, inflight>>

\* an input event of the search input
Input(raw_value) ==
    /\ Len(on_input(St, raw_value).timers) <= MaxTimers
    /\ Done(on_input(St, raw_value), "input", FALSE, 0)
    /\ UNCHANGED <<cleanups, inflight>>

\* a timeout set by on_input fires
DebounceFire(k) ==
    /\ k \in 1..Len(timers)
    /\ Done(debounce_fire(St, k), "debounce", FALSE, 0)
    /\ UNCHANGED <<cleanups, inflight>>

\* helpers.search, were it to pass the pattern on as it is given
search_untrimmed(s, pattern) == _search_and_update(s, pattern)

\* helpers.search: the pattern is trimmed and searched
search(s, pattern) == _search_and_update(s, trim(pattern))

\* helpers.search(pattern)
Search(pattern) ==
    /\ Done(search(St, pattern), "search", FALSE, 0)
    /\ UNCHANGED <<cleanups, inflight>>

\* ArrowDown and ArrowUp in the search input
SelectNext ==
    /\ Done(_select_next_result(St), "selectNext", FALSE, 0)
    /\ UNCHANGED <<cleanups, inflight>>

SelectPrevious ==
    /\ Done(_select_previous_result(St), "selectPrevious", FALSE, 0)
    /\ UNCHANGED <<cleanups, inflight>>

\* A pending resolution: its item, its source, the await it stands at and,
\* for the properties only, the open flag it was triggered under.
Pending(item, source, pc) ==
    [item |-> item, source |-> source, pc |-> pc, opened |-> open]

\* the form is submitted: the selected result is resolved, or the call
\* fails on a selected index that has no result
Submit ==
    /\ results[mode_state] # <<>>
    /\ Len(inflight) < MaxInFlight
    /\ LET item == results[mode_state][SubmitIdx(St) + 1]
       IN  IF SubmitIdx(St) >= Len(results[mode_state])
           THEN /\ Commit(St)
                /\ last' = Observed("submit", TRUE, 0)
                /\ inflight' = inflight
           ELSE IF item.type = "NAVIGABLE"
           THEN /\ Done(_resolve_navigable(on_submit_select(St), item),
                        "submit", FALSE, 0)
                /\ inflight' = Append(inflight, Pending(item, "submit", "navigation"))
           ELSE IF item.type = "SEARCHABLE"
           THEN LET r == _resolve_searchable(on_submit_select(St), item)
                IN  /\ Commit(r.s)
                    /\ last' = Observed("submit", r.threw, 0)
                    /\ inflight' = inflight
           ELSE /\ Done(_resolve_actionable(on_submit_select(St), item),
                        "submit", FALSE, 0)
                /\ inflight' = Append(inflight, Pending(item, "submit", "onRequest"))
    /\ UNCHANGED cleanups

\* a result is clicked: the result with the id of the clicked node is resolved
Click(id) ==
    /\ IndexOfId(results[mode_state], id) # 0
    /\ Len(inflight) < MaxInFlight
    /\ LET item == results[mode_state][IndexOfId(results[mode_state], id)]
       IN  IF item.type = "NAVIGABLE"
           THEN /\ Done(_resolve_navigable(St, item), "click", FALSE, 0)
                /\ inflight' = Append(inflight, Pending(item, "click", "navigation"))
           ELSE IF item.type = "SEARCHABLE"
           THEN LET r == _resolve_searchable(St, item)
                IN  /\ Commit(r.s)
                    /\ last' = Observed("click", r.threw, 0)
                    /\ inflight' = inflight
           ELSE /\ Done(_resolve_actionable(St, item), "click", FALSE, 0)
                /\ inflight' = Append(inflight, Pending(item, "click", "onRequest"))
    /\ UNCHANGED cleanups

\* a bound shortcut of an item is pressed
Shortcut(h) ==
    /\ BagIn(h, keyBindings)
    /\ Len(inflight) < MaxInFlight
    /\ LET item == CHOOSE it \in Universe : it.obj = h.item
       IN  /\ Done(_resolve_actionable(St, item), "shortcut", FALSE, 0)
           /\ inflight' = Append(inflight, Pending(item, "shortcut", "onRequest"))
    /\ UNCHANGED cleanups

\* onRequest of the i-th pending resolution settles with preAction
RequestSettles(i, preAction) ==
    /\ i \in 1..Len(inflight)
    /\ inflight[i].pc = "onRequest"
    /\ Done(_after_onRequest(St, inflight[i].item, preAction),
            IF preAction THEN "onRequest" ELSE "cancelled", FALSE, 0)
    /\ inflight' = IF preAction THEN [inflight EXCEPT ![i].pc = "onAction"]
                   ELSE RemoveAt(inflight, i)
    /\ UNCHANGED cleanups

\* onAction of the i-th pending resolution returns or throws
ActionSettles(i, threw) ==
    /\ i \in 1..Len(inflight)
    /\ inflight[i].pc = "onAction"
    /\ Len(history[mode_state]) < MaxHistory
    /\ Done(_after_onAction(St, inflight[i].item, inflight[i].source, threw),
            "onAction", threw, 0)
    /\ inflight' = RemoveAt(inflight, i)
    /\ UNCHANGED cleanups

\* the navigation hook of the i-th pending resolution returns or throws
NavigationSettles(i, threw) ==
    /\ i \in 1..Len(inflight)
    /\ inflight[i].pc = "navigation"
    /\ Len(history[mode_state]) < MaxHistory
    /\ Done(_after_navigation(St, inflight[i].item, inflight[i].source, threw),
            "navigation", threw, 0)
    /\ inflight' = RemoveAt(inflight, i)
    /\ UNCHANGED cleanups

(***************************************************************************)
(* The registry under registration, reversal and unregistration, with the  *)
(* palette opened, closed and typed into.                                  *)
(***************************************************************************)
RegistryConfigs ==
    {c \in Configs({"RESET"}, {FALSE}, {0}, {"ALL"}, SORT_MODE, {NoSortBy}) :
        c.sortMode["default"] = "SORTED" /\ c.sortMode["commands"] = "UNSORTED"}

RegistryMatchers ==
    {IdMatcher("a"), IdMatcher("b"), ItemMatcher(ItemA), FnMatcher("isAlpha")}

\* override and silent as callers pass them: the defaults, a loud call, an
\* overriding call (silent is not read when override is set).
RegistryFlags == {<<FALSE, TRUE>>, <<FALSE, FALSE>>, <<TRUE, TRUE>>}

InitRegistry == InitWith(RegistryConfigs)

NextRegistry ==
    \/ \E item \in Batches(RegistryItems), f \in RegistryFlags :
          RegisterItem("default", item, f[1], f[2], TRUE)
    \/ InvokeCleanup(1)
    \/ DropCleanup
    \/ \E selector \in RegistryMatchers : UnregisterItem("default", <<selector>>)
    \/ OpenPalette("default")
    \/ ClosePalette

SpecRegistry == InitRegistry /\ [][NextRegistry]_vars

(***************************************************************************)
(* Properties of the registry.                                             *)
(***************************************************************************)
Registry(s, m) ==
    <<s.rawAll[m], s.rawAllSorted[m], s.items[m], s.searcher[m]>>

HasDuplicate(raw, item) == \E i \in 1..Len(item) : FoundIdx(raw, item[i]) # 0

\* C1: registerItem(mode, items, override=false, silent=false) with a
\* candidate whose id is already in the Mode fails with the duplicate-id
\* error and leaves rawItems, rawItemsSorted, the items view and the Searcher
\* as they were, wherever the duplicate stands in the batch.
C1_DuplicateFailsAndKeepsTheMode ==
    \A item \in Batches(RegistryItems) :
        HasDuplicate(rawAll["default"], item) =>
            LET r == _register_item(St, "default", item, FALSE, FALSE)
            IN  r.threw /\ Registry(r.s, "default") = Registry(St, "default")

\* C2: registerItem and then at once its reversal callback restore
\* rawItems, rawItemsSorted, the items view and the Searcher, order included,
\* for calls that displaced no item the Mode held before.
C2_RegisterThenReverseRestores ==
    \A item \in Batches(RegistryItems), f \in RegistryFlags :
        LET r == _register_item(St, "default", item, f[1], f[2])
            s2 == _register_item_cleanup(r.s, "default", r.new_items)
        IN  (~r.threw /\ (f[1] => ~HasDuplicate(rawAll["default"], item)))
                => Registry(s2, "default") = Registry(St, "default")

\* C3: rawItems, rawItemsSorted and the Searcher of a Mode hold the same
\* set of items in every reachable state.
C3_CollectionsAgree ==
    \A m \in ModeNames :
        /\ Range(rawAll[m]) = Range(rawAllSorted[m])
        /\ Range(rawAll[m]) = Range(searcher[m])

\* C4: no two items of a Mode's rawItems have the same id.
C4_IdsUniqueInMode ==
    \A m \in ModeNames : \A i, j \in 1..Len(rawAll[m]) :
        rawAll[m][i].id = rawAll[m][j].id => i = j

\* C4 witness: an overriding call has put the second object with the id "a"
\* in the slot of the first, next to another item.
C4_Witness ==
    /\ last.op = "registerItem"
    /\ rawAll["default"] = <<ItemA2, ItemB>>
    /\ searcher["default"] = <<ItemB, ItemA2>>

\* C6: unregisterItem is idempotent: a second call with the same matcher
\* (an id, an item, a predicate) right after the first removes nothing,
\* changes no part of the state and runs no refresh.
C6_UnregisterIdempotent ==
    \A selector \in RegistryMatchers :
        LET r1 == _unregister_item(St, "default", <<selector>>)
            s1 == [r1.s EXCEPT !.refreshed = FALSE]
            r2 == _unregister_item(s1, "default", <<selector>>)
        IN  r2.removed_count = 0 /\ r2.s = s1

\* C6 witness: an unregistration by predicate has just removed two items
\* while the palette showed them.
C6_Witness ==
    /\ last.op = "unregisterItem"
    /\ last.n = 2
    /\ open
    /\ results["default"] = <<>>

\* C19: whatever was registered and unregistered since it was returned, the
\* reversal callback of a registerItem call takes out of the Mode only the
\* items its call added: every item another call put into rawItems,
\* rawItemsSorted, the items view or the Searcher is still there afterwards,
\* and the items it takes out are gone from all four and from the shortcut
\* bindings.
C19_CleanupRemovesOnlyItsOwn ==
    \A i \in 1..Len(cleanups) :
        LET m == cleanups[i].mode
            own == Range(cleanups[i].new_items)
            s2 == _register_item_cleanup(St, m, cleanups[i].new_items)
            kept(before, after) == Range(before) \ own \subseteq Range(after)
            gone(after) == Range(after) \cap own = {}
        IN  /\ kept(rawAll[m], s2.rawAll[m])
            /\ kept(rawAllSorted[m], s2.rawAllSorted[m])
            /\ kept(items[m], s2.items[m])
            /\ kept(searcher[m], s2.searcher[m])
            /\ gone(s2.rawAll[m]) /\ gone(s2.rawAllSorted[m])
            /\ gone(s2.items[m]) /\ gone(s2.searcher[m])
            /\ \A it \in own : \A h \in BagToSet(s2.keyBindings) : h.item # it.obj

(***************************************************************************)
(* Two Modes with items registered in both, the palette opened in either   *)
(* and typed into.                                                         *)
(***************************************************************************)
ModesConfigs ==
    {c \in Configs({"RESET"}, {FALSE}, {0}, {"ALL"}, SORT_MODE, {NoSortBy}) :
        c.sortMode["default"] = "SORTED" /\ c.sortMode["commands"] = "SORTED"}

ModesTexts == {<<>>, <<">">>}

InitModes == InitWith(ModesConfigs)

NextModes ==
    \/ \E it \in {ItemA, ItemB} : RegisterItem("default", <<it>>, FALSE, TRUE, FALSE)
    \/ RegisterItem("commands", <<ItemA>>, FALSE, TRUE, FALSE)
    \/ \E mode \in ModeNames : UnregisterItem(mode, <<IdMatcher("a")>>)
    \/ \E mode \in ModeNames : OpenPalette(mode)
    \/ ClosePalette
    \/ \E raw_value \in ModesTexts : Input(raw_value)

SpecModes == InitModes /\ [][NextModes]_vars

\* C5: an item id is unique across all the Modes of the palette: the same
\* id is never registered in two Modes at the same time.
C5_IdsUniqueAcrossModes ==
    \A m1, m2 \in ModeNames :
        m1 # m2 => Range(Ids(rawAll[m1])) \cap Range(Ids(rawAll[m2])) = {}

(***************************************************************************)
(* The selection cursor over the results of a palette that is typed into   *)
(* while items come and go.                                                *)
(***************************************************************************)
SelectConfigs ==
    {c \in Configs({"RESET"}, {FALSE}, {0}, {"ALL"}, SORT_MODE, {NoSortBy}) :
        c.sortMode["default"] = "SORTED" /\ c.sortMode["commands"] = "SORTED"}

SelectTexts == {<<>>, <<"l">>, <<"b">>}

InitSelect == InitWith(SelectConfigs)

NextSelect ==
    \/ \E it \in SelectItems : RegisterItem("default", <<it>>, FALSE, TRUE, FALSE)
    \/ \E id \in {"a", "c"} : UnregisterItem("default", <<IdMatcher(id)>>)
    \/ OpenPalette("default")
    \/ ClosePalette
    \/ \E raw_value \in SelectTexts : Input(raw_value)
    \/ SelectNext
    \/ SelectPrevious

SpecSelect == InitSelect /\ [][NextSelect]_vars

RECURSIVE NextTimes(_, _)
NextTimes(s, k) == IF k = 0 THEN s ELSE NextTimes(_select_next_result(s), k - 1)

\* C8: selection is cyclic over the current results.  With n > 0 results and
\* the selection on index i of them, selectNext moves to (i+1) mod n and
\* selectPrevious to (i-1) mod n, the selected id is the id of the result at
\* the new index, selectPrevious undoes selectNext, n times selectNext come
\* back to i, and nothing but the selection changes; with no results both
\* change nothing.
C8_SelectionIsCyclic ==
    LET res == results[mode_state]
        n == Len(res)
        i == selected.idx
        nxt == _select_next_result(St)
        prv == _select_previous_result(St)
    IN  /\ n = 0 => nxt = St /\ prv = St
        /\ (n > 0 /\ i \in 0..(n - 1)) =>
              /\ nxt.selected.idx = (IF i = n - 1 THEN 0 ELSE i + 1)
              /\ prv.selected.idx = (IF i = 0 THEN n - 1 ELSE i - 1)
              /\ nxt.selected.id = res[nxt.selected.idx + 1].id
              /\ prv.selected.id = res[prv.selected.idx + 1].id
              /\ _select_previous_result(nxt).selected.idx = i
              /\ NextTimes(St, n).selected.idx = i
              /\ [nxt EXCEPT !.selected = selected] = St
              /\ [prv EXCEPT !.selected = selected] = St

\* C8 witness: selectPrevious has just wrapped from the first of three
\* results to the last.
C8_Witness ==
    /\ last.op = "selectPrevious"
    /\ Ids(results["default"]) = <<"b", "c", "a">>
    /\ selected = [idx |-> 2, id |-> "a"]

(***************************************************************************)
(* Resolutions: items submitted from the results or triggered by their     *)
(* shortcut, onRequest and onAction settling while the palette is opened,  *)
(* closed and typed into, under every closeAction.                         *)
(***************************************************************************)
ResolveConfigs ==
    {c \in Configs(PALETTE_CLOSE_ACTION, {FALSE}, {0}, NO_RESULTS_MODE,
                   SORT_MODE, {NoSortBy}) :
        /\ c.emptyMode["default"] = "HISTORY" /\ c.emptyMode["commands"] = "ALL"
        /\ c.sortMode["default"] = "SORTED" /\ c.sortMode["commands"] = "SORTED"}

ResolveTexts == {<<>>, <<"a">>}

InitResolve == InitWith(ResolveConfigs)

NextResolve ==
    \/ \E it \in ResolveItems : RegisterItem("default", <<it>>, FALSE, TRUE, FALSE)
    \/ UnregisterItem("default", <<IdMatcher("a")>>)
    \/ OpenPalette("default")
    \/ ClosePalette
    \/ \E raw_value \in ResolveTexts : Input(raw_value)
    \/ inflight = <<>> /\ Submit
    \/ inflight = <<>> /\ \E h \in BagToSet(keyBindings) : Shortcut(h)
    \/ \E i \in 1..MaxInFlight, preAction \in BOOLEAN : RequestSettles(i, preAction)
    \/ \E i \in 1..MaxInFlight, threw \in BOOLEAN : ActionSettles(i, threw)

SpecResolve == InitResolve /\ [][NextResolve]_vars

\* C7: with emptyMode = HISTORY, each onAction that settles puts the id of
\* its item at the front of the history of the Mode, and the empty query
\* yields the registered items of the history ids in history order, most
\* recent first, the ids no longer registered skipped.
C7_EmptyQueryFollowsHistory ==
    LET m == mode_state
        registered(id) == \E k \in 1..Len(rawAll[m]) : rawAll[m][k].id = id
        r == _search_and_update(St, <<>>).results[m]
    IN  /\ \A i \in 1..Len(inflight) : \A threw \in BOOLEAN :
              inflight[i].pc = "onAction" =>
                  _after_onAction(St, inflight[i].item, inflight[i].source,
                                  threw).history[m]
                      = <<inflight[i].item.id>> \o history[m]
        /\ config.emptyMode[m] = "HISTORY" =>
              /\ Ids(r) = SelectSeq(history[m], registered)
              /\ \A k \in 1..Len(r) : r[k] \in Range(rawAll[m])

\* C7 witness: the item b and then the item a were resolved, and the empty
\* query has shown a before b, against the sorted order of their names.
C7_Witness ==
    /\ history["default"] = <<"a", "b">>
    /\ searchText = <<>>
    /\ results["default"] = <<ItemE, ItemN>>
    /\ rawAllSorted["default"] = <<ItemN, ItemE>>

\* C9: an item with closeOn = ON_ERROR triggered while the palette is open
\* and whose onAction throws leaves, under a closing closeAction (KEEP_CLOSE
\* or RESET_CLOSE), open false and the error slot holding the error, the
\* item, the source and the mode.
C9_OnErrorClosesAndReports ==
    \A i \in 1..Len(inflight) :
        LET p == inflight[i]
            s2 == _after_onAction(St, p.item, p.source, TRUE)
        IN  (p.pc = "onAction" /\ p.item.closeOn = "ON_ERROR" /\ p.opened
                 /\ should_close)
                => /\ ~s2.open
                   /\ s2.error = [error |-> "thrown", item |-> p.item,
                                  source |-> p.source, mode |-> mode_state]

Frame(s2) ==
    /\ s2.open = open
    /\ s2.searchText = searchText
    /\ s2.results = results

\* C10: the resolution of an item with closeOn = NEVER whose onAction throws
\* leaves open as it was, under every closeAction and with the palette open
\* or closed, and resets neither searchText nor the results: none of its
\* steps (the trigger, the answer of onRequest, the throw of onAction)
\* changes any of the three.
C10_NeverLeavesThePaletteAlone ==
    /\ \A it \in ResolveItems :
          it.closeOn = "NEVER" => Frame(_resolve_actionable(St, it))
    /\ \A i \in 1..Len(inflight) :
          LET p == inflight[i]
          IN  p.item.closeOn = "NEVER" =>
                 /\ p.pc = "onRequest" => Frame(_after_onRequest(St, p.item, TRUE))
                 /\ p.pc = "onAction" =>
                        Frame(_after_onAction(St, p.item, p.source, TRUE))

\* C10 witness: under RESET_CLOSE, the onAction of the NEVER item has just
\* thrown with the palette open on a typed query and its results.
C10_Witness ==
    /\ last.op = "onAction" /\ last.threw
    /\ error.item = ItemN
    /\ config.closeAction = "RESET_CLOSE"
    /\ open
    /\ searchText = <<"a">>
    /\ results["default"] = <<ItemN, ItemE>>

(***************************************************************************)
(* Outcomes: an application with one item, of any closeOn policy, that it  *)
(* registers and unregisters and that is submitted while the palette is    *)
(* opened, closed and typed into; onRequest answers or cancels, onAction   *)
(* and the navigation hooks return or throw.                               *)
(***************************************************************************)
OutcomeConfigs ==
    {c \in Configs(PALETTE_CLOSE_ACTION, {FALSE}, {0}, NO_RESULTS_MODE,
                   SORT_MODE, {NoSortBy}) :
        /\ c.emptyMode["default"] = "ALL" /\ c.emptyMode["commands"] = "ALL"
        /\ c.sortMode["default"] = "SORTED" /\ c.sortMode["commands"] = "SORTED"}

OutcomeTexts == {<<>>, <<"a">>}

InitOutcome == InitWith(OutcomeConfigs)

NextOutcome ==
    \/ \E it \in OutcomeItems :
          /\ \A other \in OutcomeItems \ {it} : hcache[other.obj] = Unset
          /\ RegisterItem("default", <<it>>, FALSE, TRUE, FALSE)
    \/ UnregisterItem("default", <<IdMatcher("a")>>)
    \/ OpenPalette("default")
    \/ ClosePalette
    \/ \E raw_value \in OutcomeTexts : Input(raw_value)
    \/ inflight = <<>> /\ Submit
    \/ \E i \in 1..MaxInFlight, preAction \in BOOLEAN : RequestSettles(i, preAction)
    \/ \E i \in 1..MaxInFlight, threw \in BOOLEAN : ActionSettles(i, threw)
    \/ \E i \in 1..MaxInFlight, threw \in BOOLEAN : NavigationSettles(i, threw)

SpecOutcome == InitOutcome /\ [][NextOutcome]_vars

\* C11: with closeOn = ON_SUCCESS no close action is resolved when the
\* onAction of an Actionable or the navigation hook of a Navigable throws:
\* the throw leaves open, searchText and the results as they were.
C11_OnSuccessNoCloseAfterThrow ==
    \A i \in 1..Len(inflight) :
        LET p == inflight[i]
        IN  p.item.closeOn = "ON_SUCCESS" =>
               /\ p.pc = "onAction" =>
                      Frame(_after_onAction(St, p.item, p.source, TRUE))
               /\ p.pc = "navigation" =>
                      Frame(_after_navigation(St, p.item, p.source, TRUE))

(***************************************************************************)
(* Properties of the input handler and of the public helpers.              *)
(***************************************************************************)
Foo == <<"f", "o", "o">>

\* C12: with the Modes '' (default) and '>' (commands) registered in that
\* order and default active, the input ">foo" makes commands the active
\* Mode and shows the items of commands that match "foo", sorted.
C12_InputSwitchesToCommands ==
    mode_state = "default" =>
        LET s2 == on_input(St, <<">">> \o Foo)
        IN  /\ s2.mode_state = "commands"
            /\ s2.paletteMode = "commands"
            /\ s2.results["commands"] =
                   defaultItemSorter(Searcher_search(searcher["commands"], Foo), hcache)

(***************************************************************************)
(* Sorting: a Mode under every sortMode, sorted by mapToSearch or by the   *)
(* key list ['name'], with items registered singly and in batches by loud  *)
(* calls, unregistered and searched.                                       *)
(***************************************************************************)
SortConfigs ==
    {c \in Configs({"RESET"}, {FALSE}, {0}, {"ALL"}, SORT_MODE,
                   {NoSortBy, <<"name">>}) :
        c.sortMode["commands"] = "SORTED" /\ c.sortBy["commands"] = NoSortBy}

SortTexts == {<<>>, <<"a">>}

InitSort == InitWith(SortConfigs)

NextSort ==
    \/ \E item \in Batches(SortItems) :
          RegisterItem("default", item, FALSE, FALSE, FALSE)
    \/ \E id \in {"a", "p"} : UnregisterItem("default", <<IdMatcher(id)>>)
    \/ OpenPalette("default")
    \/ \E raw_value \in SortTexts : Input(raw_value)

SpecSort == InitSort /\ [][NextSort]_vars

\* The sort key the configuration gives an item: its search string, or the
\* trimmed values of the sortBy fields, lowercased.
SortKey(m, it) ==
    toLowerCase(IF config.sortBy[m] = NoSortBy THEN it.name ELSE trim(it.name))

Ascending(m, seq) ==
    \A i, j \in 1..Len(seq) :
        i < j => ~localeLess(SortKey(m, seq[j]), SortKey(m, seq[i]))

InRegistrationOrder(m, seq) ==
    \A i, j \in 1..Len(seq) :
        i < j => IndexOfObj(rawAll[m], seq[i]) < IndexOfObj(rawAll[m], seq[j])

\* C13: rawItemsSorted honours the sort strategy and the sortMode of its
\* Mode: ascending in the lowercased sort keys under SORTED, that order
\* reversed under REVERSED, the very sequence rawItems under UNSORTED.
C13_SortedListHonoursSortMode ==
    \A m \in ModeNames :
        CASE config.sortMode[m] = "SORTED" -> Ascending(m, rawAllSorted[m])
          [] config.sortMode[m] = "REVERSED" -> Ascending(m, Reverse(rawAllSorted[m]))
          [] config.sortMode[m] = "UNSORTED" -> rawAllSorted[m] = rawAll[m]

\* C14: the results of every query that returns items follow the sortMode
\* of the Mode: the sort order under SORTED, its reverse under REVERSED and
\* the order of registration under UNSORTED.
C14_ResultsFollowSortMode ==
    \A pattern \in SortTexts :
        LET m == mode_state
            r == _search_and_update(St, pattern).results[m]
        IN  CASE config.sortMode[m] = "SORTED" -> Ascending(m, r)
              [] config.sortMode[m] = "REVERSED" -> Ascending(m, Reverse(r))
              [] config.sortMode[m] = "UNSORTED" -> InRegistrationOrder(m, r)

\* C18: an error thrown by onAction or by the navigation hook stays in the
\* resolution: the throw is answered by writing {error, item, source, mode}
\* to the error slot, mode being the active Mode, and the resolution ends
\* with the palette as usable as before (open, text and results moved only
\* by the close action); an onAction or navigation hook that returns clears
\* the slot, whatever an earlier resolution left in it.
C18_ErrorsGoToTheSlot ==
    \A i \in 1..Len(inflight) :
        LET p == inflight[i]
            after(threw) == IF p.pc = "onAction"
                            THEN _after_onAction(St, p.item, p.source, threw)
                            ELSE _after_navigation(St, p.item, p.source, threw)
            closed(s) == [_resolve_close_action(s) EXCEPT
                              !.history = s.history, !.current = s.current,
                              !.error = s.error]
            same(s) == [St EXCEPT !.history = s.history, !.current = s.current,
                                  !.error = s.error]
        IN  p.pc \in {"onAction", "navigation"} =>
               /\ after(TRUE).error = [error |-> "thrown", item |-> p.item,
                                       source |-> p.source, mode |-> mode_state]
               /\ after(FALSE).error = NoError
               /\ after(TRUE) \in {same(after(TRUE)), closed(same(after(TRUE)))}

\* C18 witness: the error slot holds what an earlier onAction threw, the
\* palette is open, and a resolution submitted since is waiting for its
\* onAction.
C18_Witness ==
    /\ error # NoError
    /\ error.source = "submit"
    /\ open
    /\ \E i \in 1..Len(inflight) : inflight[i].pc = "onAction"

\* C20: when onRequest resolves to false the resolution ends there, nothing
\* pushed to the history; with closeOn ON_CANCEL or ALWAYS the close action
\* is resolved and the current item cleared, with any other closeOn the
\* state is left as it was.
C20_Cancellation ==
    \A i \in 1..Len(inflight) :
        LET p == inflight[i]
            s2 == _after_onRequest(St, p.item, FALSE)
            s1 == _resolve_close_action(St)
        IN  p.pc = "onRequest" =>
               /\ s2.history = history
               /\ s2.error = error
               /\ p.item.closeOn \in {"ON_CANCEL", "ALWAYS"} =>
                      /\ s2.current[s2.mode_state] = NoItem
                      /\ s2 = [s1 EXCEPT !.current[s1.mode_state] = NoItem]
               /\ p.item.closeOn \notin {"ON_CANCEL", "ALWAYS"} => s2 = St

\* C20 witness: a cancellation has just resolved the close action under
\* RESET: the typed text is gone, the results are the whole list again, no
\* item is current, nothing is pending and the history is empty.
C20_Witness ==
    /\ last.op = "cancelled"
    /\ config.closeAction = "RESET"
    /\ inflight = <<>>
    /\ current["default"] = NoItem
    /\ searchText = <<>>
    /\ history["default"] = <<>>
    /\ rawAll["default"] # <<>>
    /\ results["default"] = rawAllSorted["default"]

(***************************************************************************)
(* Properties of opening, closing and searching.                           *)
(***************************************************************************)
\* C15: after closePalette() the palette is closed, under every closeAction;
\* on a palette that is already closed the call changes nothing.
C15_ClosePaletteCloses ==
    LET s2 == _close_palette(St)
    IN  /\ ~s2.open
        /\ ~open => s2 = St

(***************************************************************************)
(* Opening and searching: items in both Modes, the palette opened in       *)
(* either with and without resetOnOpen, typed into, searched through the   *)
(* public helper, an item submitted and cancelled.                         *)
(***************************************************************************)
OpenConfigs ==
    {c \in Configs({"RESET"}, BOOLEAN, {0}, {"ALL"}, SORT_MODE, {NoSortBy}) :
        c.sortMode["default"] = "SORTED" /\ c.sortMode["commands"] = "SORTED"}

OpenTexts == {<<>>, <<"l">>}
OpenPatterns == {<<" ", "l">>, <<">">>}

InitOpen == InitWith(OpenConfigs)

NextOpen ==
    \/ \E it \in {ItemA, ItemB} : RegisterItem("default", <<it>>, FALSE, TRUE, FALSE)
    \/ RegisterItem("commands", <<ItemC>>, FALSE, TRUE, FALSE)
    \/ \E mode \in ModeNames : OpenPalette(mode)
    \/ ClosePalette
    \/ \E raw_value \in OpenTexts : Input(raw_value)
    \/ \E pattern \in OpenPatterns : Search(pattern)
    \/ inflight = <<>> /\ Submit
    \/ \E i \in 1..MaxInFlight : RequestSettles(i, FALSE)

SpecOpen == InitOpen /\ [][NextOpen]_vars

\* C16: openPalette(m) makes m the active Mode and sets open; with
\* resetOnOpen it clears the current of m, sets searchText to the prefix of
\* m and gives m the results of the empty query; without it searchText, the
\* results and the current items stay exactly as they were.
C16_OpenPalette ==
    \A m \in ModeNames :
        LET s2 == _open_palette(St, m)
        IN  /\ s2.mode_state = m /\ s2.paletteMode = m /\ s2.open
            /\ config.resetOnOpen =>
                  /\ s2.current[m] = NoItem
                  /\ s2.searchText = Prefix(m)
                  /\ s2.results[m] = rawAllSorted[m]
            /\ ~config.resetOnOpen =>
                  /\ s2.searchText = searchText
                  /\ s2.results = results
                  /\ s2.current = current

\* C16 witness: with resetOnOpen, openPalette('commands') has just taken the
\* palette from default, where a text was typed, an item was in resolution
\* and the results were filtered.
C16_Witness ==
    /\ last.op = "openPalette"
    /\ config.resetOnOpen
    /\ mode_state = "commands"
    /\ searchText = <<">">>
    /\ results["commands"] = <<ItemC>>
    /\ results["default"] = <<ItemB>>
    /\ current["default"] = ItemB

\* What the search pipeline stores for query q in the active Mode: the
\* emptyMode answer for the empty query, else the Searcher's matches sorted.
Answer(q) ==
    IF q = <<>> THEN EmptyResults(St)
    ELSE defaultItemSorter(Searcher_search(searcher[mode_state], q), hcache)

\* The state search leaves when query q is the one searched.
Searched(q) ==
    [St EXCEPT !.results[mode_state] = Answer(q),
               !.selected = IF Answer(q) = <<>> THEN NoSelection
                            ELSE [idx |-> 0, id |-> Answer(q)[1].id],
               !.refreshed = TRUE]

\* C17 as stated: search(pattern) trims the pattern, strips the active
\* Mode's prefix from its front and searches what remains.
C17_SearchStripsThePrefix ==
    \A pattern \in OpenPatterns :
        search(St, pattern) = Searched(slice(trim(pattern), Len(Prefix(mode_state))))

\* C17 amended: search(pattern) trims the pattern and searches the whole of
\* it in the active Mode, the prefix not stripped: the empty pattern is
\* answered by emptyMode, any other by the Searcher then the sorter; the
\* outcome is stored as the results and the selection is reset to the first
\* result, or cleared when there is none.
C17_SearchTrimsAndSearches ==
    \A pattern \in OpenPatterns \cup {<<>>, <<" ">>} :
        search(St, pattern) = Searched(trim(pattern))

\* C17 witness: search('>') in commands, opened on its one item, has just
\* searched ">" itself, found nothing and cleared the selection.
C17_Witness ==
    /\ last.op = "search"
    /\ mode_state = "commands"
    /\ searchText = <<">">>
    /\ rawAll["commands"] = <<ItemC>>
    /\ results["commands"] = <<>>
    /\ selected = NoSelection

(***************************************************************************)
(* Properties of the steps of a resolution.                                *)
(***************************************************************************)
\* C21: up to its first hook the resolution of an item with closeOn =
\* ON_TRIGGER sets current to the item and resolves the close action; with
\* any other closeOn it sets current and does nothing else, so no close has
\* been resolved when the first hook runs.
C21_OnTriggerClosesBeforeTheHooks ==
    \A it \in Range(rawAll[mode_state]) :
        LET s2 == IF it.type = "NAVIGABLE" THEN _resolve_navigable(St, it)
                  ELSE _resolve_actionable(St, it)
            s1 == [St EXCEPT !.current[mode_state] = it]
        IN  /\ it.closeOn = "ON_TRIGGER" => s2 = _resolve_close_action(s1)
            /\ it.closeOn # "ON_TRIGGER" => s2 = s1

\* C21 witness: an Actionable with closeOn = ON_TRIGGER was submitted from a
\* typed text under RESET and waits for its onRequest: the text is reset
\* and remembered as the last input, and the item is current.
C21_Witness ==
    /\ last.op = "submit"
    /\ config.closeAction = "RESET"
    /\ inflight = <<Pending(ItemOf("ON_TRIGGER"), "submit", "onRequest")>>
    /\ current["default"] = ItemOf("ON_TRIGGER")
    /\ lastInput["default"] = <<"a">>
    /\ searchText = <<>>

\* The state a pending resolution reaches when its core hook settles.
AfterHook(p, threw) ==
    IF p.pc = "navigation" THEN _after_navigation(St, p.item, p.source, threw)
    ELSE _after_onAction(St, p.item, p.source, threw)

\* C22: when onAction or the navigation hook of a pending resolution settles,
\* returning or throwing, under any closeOn, the history of the Mode is the
\* history before it with the id of the item put once at its front, and the
\* other histories are as before; a cancellation leaves every history as it
\* is.
C22_HistoryPushedOnce ==
    \A i \in 1..Len(inflight) :
        LET p == inflight[i]
        IN  /\ p.pc \in {"onAction", "navigation"} =>
                \A threw \in BOOLEAN :
                    AfterHook(p, threw).history =
                        [history EXCEPT ![mode_state] = <<p.item.id>> \o @]
            /\ p.pc = "onRequest" =>
                _after_onRequest(St, p.item, FALSE).history = history

\* C22 witness: the navigation hook of a Navigable with closeOn = ALWAYS has
\* thrown, the resolution closed and returned, and the id stands a second
\* time in the history.
C22_Witness ==
    /\ last = Observed("navigation", TRUE, 0)
    /\ error.item = ItemW
    /\ inflight = <<>>
    /\ history["default"] = <<"a", "a">>

\* C23: when the core hook of a resolution settles, returning or throwing,
\* under any closeOn, the current slot of the Mode is empty.
C23_CurrentClearedAtTheEnd ==
    \A i \in 1..Len(inflight) :
        LET p == inflight[i]
        IN  p.pc \in {"onAction", "navigation"} =>
               \A threw \in BOOLEAN :
                   AfterHook(p, threw).current[mode_state] = NoItem

(***************************************************************************)
(* Submitting and clicking: two Actionables in one Mode and a Searchable   *)
(* in the other, the palette opened in either, closed and typed into, the  *)
(* cursor moved, results submitted and clicked, the Actionables cancelled  *)
(* by onRequest.                                                           *)
(***************************************************************************)
SubmitTexts == {<<>>, <<">">>}

NextSubmit ==
    \/ \E it \in {ItemA, ItemB} : RegisterItem("default", <<it>>, FALSE, TRUE, FALSE)
    \/ RegisterItem("commands", <<ItemS>>, FALSE, TRUE, FALSE)
    \/ UnregisterItem("commands", <<IdMatcher("s")>>)
    \/ \E mode \in ModeNames : OpenPalette(mode)
    \/ ClosePalette
    \/ \E raw_value \in SubmitTexts : Input(raw_value)
    \/ SelectNext
    \/ inflight = <<>> /\ Submit
    \/ inflight = <<>> /\ \E id \in {"s", "b"} : Click(id)
    \/ \E i \in 1..MaxInFlight : RequestSettles(i, FALSE)

SpecSubmit == InitWith(OpenConfigs) /\ [][NextSubmit]_vars

\* C24: resolving a Searchable result, by submitting it when it is the
\* selected result (or the first, when nothing is selected) or by clicking
\* it, fails and leaves the state as it is: open, the active Mode,
\* searchText, results, selection, current, history and the error slot.
C24_SearchableFailsAndChangesNothing ==
    \A k \in 1..Len(results[mode_state]) :
        LET item == results[mode_state][k]
            clicked == _resolve_searchable(St, item)
            submitted == _resolve_searchable(on_submit_select(St), item)
        IN  item.type = "SEARCHABLE" =>
               /\ clicked.threw /\ clicked.s = St
               /\ SubmitIdx(St) + 1 = k => submitted.threw /\ submitted.s = St

(***************************************************************************)
(* Properties of the selection.                                            *)
(***************************************************************************)
\* C30: in every reachable state the selection is either the empty one
\* (index -1, no id) or an index into the results of the active Mode with
\* the id of the result at that index.
C30_SelectionRefersToResults ==
    \/ selected = NoSelection
    \/ /\ selected.idx \in 0..(Len(results[mode_state]) - 1)
       /\ selected.id = results[mode_state][selected.idx + 1].id

(***************************************************************************)
(* Typing and closing: an item in each of two Modes, whose prefixes are    *)
(* '' and '>' or '@' and '>', the palette opened in either and closed      *)
(* under every closeAction, texts typed with and, under RESET, without     *)
(* debounce, the deferred searches firing.                                 *)
(***************************************************************************)
InputConfigs ==
    {[c EXCEPT !.prefix["default"] = p] :
        c \in {d \in Configs(PALETTE_CLOSE_ACTION, {FALSE}, {0, 1}, {"ALL"},
                              {"SORTED"}, {NoSortBy}) :
                  d.debounce = 0 \/ d.closeAction = "RESET"},
        p \in {<<>>, <<"@">>}}

InputTexts == {<<">">>, <<"l">>, <<">", "l">>}

NextInput ==
    \/ RegisterItem("default", <<ItemB>>, FALSE, TRUE, FALSE)
    \/ RegisterItem("commands", <<ItemC>>, FALSE, TRUE, FALSE)
    \/ \E mode \in ModeNames : OpenPalette(mode)
    \/ ClosePalette
    \/ \E raw_value \in InputTexts : Input(raw_value)
    \/ \E k \in 1..MaxTimers : DebounceFire(k)

SpecInput == InitWith(InputConfigs) /\ [][NextInput]_vars

C26_NoPrefixEmptiesResults ==
    \A raw_value \in InputTexts :
        LET s2 == on_input(St, raw_value)
        IN  (\A m \in ModeNames : ~startsWith(raw_value, Prefix(m))) =>
               /\ s2.results[mode_state] = <<>>
               /\ s2.selected = NoSelection
               /\ s2.mode_state = mode_state
               /\ Range(s2.timers) \subseteq Range(timers)

\* The query on_input searches for a text, once the Mode is settled.
QueryOf(s, raw_value) == slice(raw_value, Len(Prefix(s.mode_state)))

\* C27: at most one deferred search is pending.  An input drops the pending
\* one and either searches at once (no debounce, or the text switched the
\* Mode), leaving none pending, or leaves exactly one pending, which
\* carries the query of that input; after two inputs in a row the one
\* pending search is that of the second, and when it fires the results are
\* those of its query and nothing is pending.
C27_OneDeferredSearch ==
    /\ Len(timers) <= 1
    /\ \A v \in InputTexts :
          LET s2 == on_input(St, v)
              at_once == config.debounce <= 0 \/ s2.mode_state # mode_state
          IN  /\ at_once =>
                    /\ s2.timers = <<>>
                    /\ s2.results = _search_and_update(s2, QueryOf(s2, v)).results
              /\ ~at_once =>
                    /\ s2.timers = <<[id |-> s2.debounce_id, query |-> QueryOf(s2, v),
                                      mode |-> s2.mode_state]>>
                    /\ s2.results = results
              /\ \A w \in InputTexts :
                    LET s3 == on_input(s2, w)
                    IN  /\ Len(s3.timers) <= 1
                        /\ s3.timers # <<>> =>
                              /\ s3.timers[1].query = QueryOf(s3, w)
                              /\ debounce_fire(s3, 1).timers = <<>>
                              /\ debounce_fire(s3, 1).results =
                                    _search_and_update(s3, QueryOf(s3, w)).results

\* C27 witness: the one deferred search pending is that of ">l", typed after
\* ">" while the search of ">" was still pending; the results are still
\* those of before the two inputs.
C27_Witness ==
    /\ last.op = "input"
    /\ config.debounce > 0
    /\ searchText = <<">", "l">>
    /\ timers = <<[id |-> debounce_id, query |-> <<"l">>, mode |-> mode_state]>>
    /\ rawAll["commands"] = <<ItemC>>
    /\ results["commands"] = <<>>

(***************************************************************************)
(* Overriding: three objects with the id "b", one without shortcut and two *)
(* bound to different keys, and an item with another id, registered in     *)
(* 'default' with and without override; one of them registered in          *)
(* 'commands'; reversal callbacks invoked or dropped, the id unregistered. *)
(***************************************************************************)
NextOverride ==
    \/ \E it \in {ItemB, ItemN, ItemJ, ItemA}, override \in BOOLEAN :
          RegisterItem("default", <<it>>, override, TRUE, TRUE)
    \/ RegisterItem("commands", <<ItemJ>>, FALSE, TRUE, FALSE)
    \/ InvokeCleanup(1)
    \/ DropCleanup
    \/ UnregisterItem("default", <<IdMatcher("b")>>)
    \/ OpenPalette("default")
    \/ ClosePalette

SpecOverride == InitWith(RegistryConfigs) /\ [][NextOverride]_vars

\* C28: registerItem(mode, item, override = true) for an id the Mode holds
\* puts the item in the slot of the one it displaces, in rawItems and in the
\* items view, every other slot as before; the displaced item leaves the
\* Searcher and its shortcut handlers are unbound, once each; the new item
\* is in the Searcher and its handlers are bound; the call adds nothing new,
\* so its reversal callback changes nothing and the displaced item stays
\* out.
C28_OverrideReplacesInPlace ==
    \A it \in {ItemB, ItemN, ItemJ, ItemA} :
        LET m == "default"
            k == FoundIdx(rawAll[m], it)
            removed == rawAll[m][k]
            r == _register_item(St, m, <<it>>, TRUE, TRUE)
            undone == _register_item_cleanup(r.s, m, r.new_items)
        IN  k # 0 =>
               /\ ~r.threw
               /\ r.s.rawAll = [rawAll EXCEPT ![m][k] = it]
               /\ r.s.items = [items EXCEPT ![m][k] = it]
               /\ r.s.searcher[m] =
                      Searcher_add(Searcher_remove(searcher[m], removed), it)
               /\ r.s.keyBindings =
                      (keyBindings (-) Handlers(removed)) (+) Handlers(it)
               /\ r.new_items = <<>>
               /\ [undone EXCEPT !.refreshed = FALSE] =
                      [r.s EXCEPT !.refreshed = FALSE]

(***************************************************************************)
(* Properties of closing during a resolution.                              *)
(***************************************************************************)
\* The rest of a pending resolution, run from state s: onRequest answering
\* with a value when it is what is awaited, then the core hook returning or
\* throwing.
Finish(s, p, threw) ==
    CASE p.pc = "onRequest" ->
            _after_onAction(_after_onRequest(s, p.item, TRUE), p.item, p.source, threw)
      [] p.pc = "onAction" -> _after_onAction(s, p.item, p.source, threw)
      [] p.pc = "navigation" -> _after_navigation(s, p.item, p.source, threw)

C31_SubmitFindsAnItem ==
    results[mode_state] # <<>> => SubmitIdx(St) < Len(results[mode_state])

(***************************************************************************)
(* Resolutions and the active Mode: an Actionable with a shortcut in one   *)
(* Mode, the palette opened in either Mode and closed, the result          *)
(* submitted, the shortcut pressed, onRequest answering either way and     *)
(* onAction returning or throwing.                                         *)
(***************************************************************************)
NextActive ==
    \/ RegisterItem("default", <<ItemN>>, FALSE, TRUE, FALSE)
    \/ \E mode \in ModeNames : OpenPalette(mode)
    \/ ClosePalette
    \/ inflight = <<>> /\ Submit
    \/ inflight = <<>> /\ \E h \in BagToSet(keyBindings) : Shortcut(h)
    \/ \E i \in 1..MaxInFlight, preAction \in BOOLEAN : RequestSettles(i, preAction)
    \/ \E i \in 1..MaxInFlight, threw \in BOOLEAN : ActionSettles(i, threw)

SpecActive == InitWith(OpenConfigs) /\ [][NextActive]_vars

\* C32: whenever the error slot holds an error, its mode field names the
\* Mode in which the item of the error is registered.
C32_ErrorNamesTheModeOfItsItem ==
    error # NoError => error.item \in Range(rawAll[error.mode])

\* C38: every id in the history of a Mode is the id of an item of that
\* Mode, and the current item of a Mode is an item of that Mode.
C38_HistoryAndCurrentOfTheItemsMode ==
    \A m \in ModeNames :
        /\ \A i \in 1..Len(history[m]) :
               \E it \in Range(rawAll[m]) : it.id = history[m][i]
        /\ current[m] # NoItem => current[m] \in Range(rawAll[m])

(***************************************************************************)
(* Properties of the results.                                              *)
(***************************************************************************)
\* C33: in every state in which a registration would refresh the results,
\* stripping the prefix of the active Mode from the search text, the search
\* text starts with that prefix.
C33_StrippedTextStartsWithPrefix ==
    \A m \in ModeNames :
        _register_item(St, m, <<>>, FALSE, TRUE).s.refreshed =>
            startsWith(searchText, Prefix(mode_state))

\* C34: every item in the results of a Mode is registered in that Mode.
C34_ResultsAreRegistered ==
    \A m \in ModeNames : Range(results[m]) \subseteq Range(rawAll[m])

\* C35: the results of a Mode hold each item at most once.
C35_ResultsHoldAnItemOnce ==
    \A m \in ModeNames :
        \A i, j \in 1..Len(results[m]) :
            results[m][i] = results[m][j] => i = j

(***************************************************************************)
(* The active Mode: helpers.openPalette called with the names of the two   *)
(* Modes and with a name that is no Mode; while there is an active Mode,   *)
(* items registered, the palette closed and typed into.                    *)
(***************************************************************************)
NextNamed ==
    \/ \E mode \in ModeNames \cup {"settings"} : OpenPalette(mode)
    \/ mode_state # NoMode /\ RegisterItem("default", <<ItemB>>, FALSE, TRUE, FALSE)
    \/ mode_state # NoMode /\ RegisterItem("commands", <<ItemC>>, FALSE, TRUE, FALSE)
    \/ mode_state # NoMode /\ ClosePalette
    \/ mode_state # NoMode /\ \E raw_value \in InputTexts : Input(raw_value)

SpecNamed == InitWith(OpenConfigs) /\ [][NextNamed]_vars

\* C36: the active Mode is one of the Modes of the palette and the exposed
\* mode name is its name.
C36_ActiveModeExists ==
    mode_state \in ModeNames /\ paletteMode = mode_state

(***************************************************************************)
(* Properties of the shortcuts.                                            *)
(***************************************************************************)
\* C37: the bound shortcut handlers are exactly the handlers of the items
\* registered in the Modes, one for each shortcut of each registration.
C37_BoundHandlersAreOfRegisteredItems ==
    \A it \in Universe : \A h \in BagToSet(Handlers(it)) :
        CopiesIn(h, keyBindings) =
            Cardinality(UNION {{<<m, i>> : i \in {k \in 1..Len(rawAll[m]) :
                                                     rawAll[m][k] = it}} :
                               m \in ModeNames})

(***************************************************************************)
(* Properties of the deferred search.                                      *)
(***************************************************************************)
\* C40: a deferred search that is pending was set in the Mode that is
\* active, and it is the search of the text that is stored: run now, it
\* searches the Mode of its input and replaces no results of a later reset.
C40_DeferredSearchOfTheActiveModeAndText ==
    \A k \in 1..Len(timers) :
        /\ timers[k].mode = mode_state
        /\ timers[k].query = slice(searchText, Len(Prefix(mode_state)))

(***************************************************************************)
(* Overlapping resolutions: nothing keeps a trigger from firing while the  *)
(* hooks of another are pending.  Two Actionables in one Mode, one with a  *)
(* shortcut, triggered by submit and by shortcut while at most one other   *)
(* resolution is pending; the hooks settle in any order.                   *)
(***************************************************************************)
NextOverlap ==
    \/ \E it \in {ItemE, ItemN} : RegisterItem("default", <<it>>, FALSE, TRUE, FALSE)
    \/ OpenPalette("default")
    \/ Submit
    \/ \E h \in BagToSet(keyBindings) : Shortcut(h)
    \/ \E i \in 1..MaxInFlight, preAction \in BOOLEAN : RequestSettles(i, preAction)
    \/ \E i \in 1..MaxInFlight, threw \in BOOLEAN : ActionSettles(i, threw)

SpecOverlap == InitWith(RegistryConfigs) /\ [][NextOverlap]_vars

\* C39: while a resolution is pending, the current item of the Mode is the
\* item of a pending resolution.
C39_CurrentIsPendingWhileAnyIs ==
    inflight # <<>> =>
        /\ current[mode_state] # NoItem
        /\ \E i \in 1..Len(inflight) : inflight[i].item = current[mode_state]

====
